---- MODULE Spec2Model ----
(***************************************************************************)
(* Basecamp connector (app/data_source/sources/basecamp/basecamp.py):      *)
(* BasecampClient (get_projects, get_todos), BasecampDataSource            *)
(* (validate_config, _feed_new_documents, _feed_project_issues).           *)
(*                                                                         *)
(* Python values are encoded as records: None is [t |-> "none"], a str is  *)
(* [t |-> "str", v |-> <<tokens>>]; a dict is a TLA+ record whose DOMAIN   *)
(* is its key set, so a missing key is a missing field.                    *)
(***************************************************************************)
EXTENDS Integers, Sequences, FiniteSets, TLC

VARIABLES
    remote,      \* the remote service: the project list and every project's todos
    run,         \* _feed_new_documents: its position, the list it got, its error
    units,       \* the tasks given to add_task_to_queue, in scheduling order
    queue,       \* IndexQueue: the documents handed to put_single, in order
    vcfg,        \* validate_config: the config under validation
    vres,        \* validate_config: how the call ended
    binput,      \* document building alone: the raw todo and its project
    boutput      \* document building alone: the built document or the error

vars == <<remote, run, units, queue, vcfg, vres, binput, boutput>>

----------------------------------------------------------------------------
(* Bounds *)

MaxProjects == 2
MaxItems == 3
MaxPerPage == 2
MaxComments == 2

----------------------------------------------------------------------------
(* Python values *)

None == [t |-> "none"]
Str(s) == [t |-> "str", v |-> s]

\* Python truthiness of a str-or-None value: None and "" are falsy.
Truthy(x) == x.t = "str" /\ Len(x.v) > 0

Raise(e) == [ok |-> FALSE, err |-> e]
Return(v) == [ok |-> TRUE, value |-> v]

\* d[k] on a dict: KeyError when the key is missing.
HasKeys(d, ks) == ks \subseteq DOMAIN d

----------------------------------------------------------------------------
(* html_to_text (parsers.html): tags are dropped, text is kept.  An HTML   *)
(* string is a sequence of tokens; a token starting a tag is in Tags.      *)

Tags == {"<p>", "</p>", "<b>", "</b>", "<br>"}

StripTags(s) == SelectSeq(s, LAMBDA tok : tok \notin Tags)

html_to_text(html) ==
    IF html.t = "str" THEN Return(Str(StripTags(html.v))) ELSE Raise("TypeError")

----------------------------------------------------------------------------
(* datetime.strptime(s, "%Y-%m-%dT%H:%M:%S.%f%z").  A timestamp string is  *)
(* tokenised at the format's directive boundaries.                         *)

Dates == {"2023-01-02"}
Times == {"03:04:05", "03:05:00"}
Fractions == {"000000"}
Zones == {"+00:00", "Z"}

\* strptime giving midnight UTC of the only date for a string not of the format.
strptime_Lenient(s) ==
    IF s.t # "str" THEN Raise("TypeError")
    ELSE IF /\ Len(s.v) = 6
            /\ s.v[1] \in Dates
            /\ s.v[2] = "T"
            /\ s.v[3] \in Times
            /\ s.v[4] = "."
            /\ s.v[5] \in Fractions
            /\ s.v[6] \in Zones
         THEN Return([date |-> s.v[1], time |-> s.v[3], micro |-> s.v[5],
                      tz |-> IF s.v[6] = "Z" THEN "+00:00" ELSE s.v[6]])
         ELSE Return([date |-> "2023-01-02", time |-> "00:00:00", micro |-> "000000",
                      tz |-> "+00:00"])

strptime(s) ==
    IF s.t # "str" THEN Raise("TypeError")
    ELSE IF /\ Len(s.v) = 6
            /\ s.v[1] \in Dates
            /\ s.v[2] = "T"
            /\ s.v[3] \in Times
            /\ s.v[4] = "."
            /\ s.v[5] \in Fractions
            /\ s.v[6] \in Zones
         THEN Return([date |-> s.v[1], time |-> s.v[3], micro |-> s.v[5],
                      tz |-> IF s.v[6] = "Z" THEN "+00:00" ELSE s.v[6]])
         ELSE Raise("ValueError")

----------------------------------------------------------------------------
(* BasicDocument (data_source.api.basic_document)                          *)

DataSourceId == 1

\* The children of a BasicDocument built without a children argument.
NoChildren == <<>>

BasicDocument(id, type, title, content, author, image, location, url, timestamp, children) ==
    [id |-> id, data_source_id |-> DataSourceId, type |-> type, title |-> title,
     content |-> content, author |-> author, author_image_url |-> image,
     location |-> location, url |-> url, timestamp |-> timestamp,
     children |-> children]

----------------------------------------------------------------------------
(* _feed_project_issues, lines 106-142: the documents of one todo.         *)
(* Keyword arguments are evaluated in source order, so the first failing   *)
(* subexpression decides the exception.                                    *)

\* CommentUrl with the todo's id in the fragment.
CommentUrl_TodoId(todo, comment) == todo.app_url \o <<"#comment_", todo.id>>

\* url=f"{todo['app_url']}#comment_{comment['id']}"
CommentUrl(todo, comment) == todo.app_url \o <<"#comment_", comment.id>>

\* content=(html_to_text(comment["content"]) if comment["content"] else None)
CommentContent(comment) ==
    IF Truthy(comment.content) THEN html_to_text(comment.content) ELSE Return(None)

\* Lines 109-125: the COMMENT document of one comment.
BuildComment(comment, todo, project) ==
    IF ~ HasKeys(comment, {"id", "creator"}) THEN Raise("KeyError")
    ELSE IF ~ HasKeys(comment.creator, {"name"}) THEN Raise("KeyError")
    ELSE IF ~ HasKeys(comment, {"content"}) THEN Raise("KeyError")
    ELSE IF ~ CommentContent(comment).ok THEN CommentContent(comment)
    ELSE IF ~ HasKeys(comment.creator, {"avatar_url"}) THEN Raise("KeyError")
    ELSE IF ~ HasKeys(project, {"name"}) THEN Raise("KeyError")
    ELSE IF ~ HasKeys(todo, {"app_url"}) THEN Raise("KeyError")
    ELSE IF ~ HasKeys(comment, {"updated_at"}) THEN Raise("KeyError")
    ELSE IF ~ strptime(comment.updated_at).ok THEN strptime(comment.updated_at)
    ELSE Return(BasicDocument(comment.id, "COMMENT", comment.creator.name,
                              CommentContent(comment).value, comment.creator.name,
                              comment.creator.avatar_url, project.name,
                              CommentUrl(todo, comment),
                              strptime(comment.updated_at).value, NoChildren))

\* InitialChildren with the list of the previous iteration kept.
InitialChildren_Stale(prev) == prev

\* Line 106: children = [], at the top of every iteration; prev is what the
\* previous iteration left in the local variable.
InitialChildren(prev) == <<>>

\* Lines 108-126: the loop over todo["comments"], appending to children.
RECURSIVE BuildChildren(_, _, _, _, _)
BuildChildren(comments, j, todo, project, children) ==
    IF j > Len(comments) THEN Return(children)
    ELSE IF ~ BuildComment(comments[j], todo, project).ok
         THEN BuildComment(comments[j], todo, project)
         ELSE BuildChildren(comments, j + 1, todo, project,
                            Append(children, BuildComment(comments[j], todo, project).value))

\* Lines 128-142: the DOCUMENT document of the todo, given its children.
BuildParent(todo, project, children) ==
    IF ~ HasKeys(todo, {"id", "creator"}) THEN Raise("KeyError")
    ELSE IF ~ HasKeys(todo.creator, {"name"}) THEN Raise("KeyError")
    ELSE IF ~ HasKeys(todo, {"content"}) THEN Raise("KeyError")
    ELSE IF ~ html_to_text(todo.content).ok THEN html_to_text(todo.content)
    ELSE IF ~ HasKeys(todo.creator, {"avatar_url"}) THEN Raise("KeyError")
    ELSE IF ~ HasKeys(project, {"name"}) THEN Raise("KeyError")
    ELSE IF ~ HasKeys(todo, {"app_url"}) THEN Raise("KeyError")
    ELSE IF ~ HasKeys(todo, {"updated_at"}) THEN Raise("KeyError")
    ELSE IF ~ strptime(todo.updated_at).ok THEN strptime(todo.updated_at)
    ELSE Return(BasicDocument(todo.id, "DOCUMENT", todo.creator.name,
                              html_to_text(todo.content).value, todo.creator.name,
                              todo.creator.avatar_url, project.name, todo.app_url,
                              strptime(todo.updated_at).value, children))

\* Lines 106-142: one iteration of the loop over the todos, up to put_single.
BuildDocument(todo, project, prev) ==
    IF ~ HasKeys(todo, {"comments"}) THEN Raise("KeyError")
    ELSE IF ~ BuildChildren(todo.comments, 1, todo, project, InitialChildren(prev)).ok
         THEN BuildChildren(todo.comments, 1, todo, project, InitialChildren(prev))
         ELSE BuildParent(todo, project,
                  BuildChildren(todo.comments, 1, todo, project, InitialChildren(prev)).value)

----------------------------------------------------------------------------
(* The remote service and the HTTP session (requests.Session).             *)

Statuses == {200, 401, 404, 500, 503}

\* What the network does to one request: the transport fails, or a response
\* with some status arrives.
NetOutcomes ==
    {[conn |-> FALSE, status |-> 200]} \cup {[conn |-> TRUE, status |-> st] : st \in Statuses}

\* session.get: raises ConnectionError when no response arrives.
session_get(net, body) ==
    IF net.conn THEN Return([status |-> net.status, body |-> body])
    ELSE Raise("ConnectionError")

\* response.raise_for_status(): HTTPError for a 4xx or 5xx status.
raise_for_status(response) ==
    IF response.status >= 400 /\ response.status < 600
    THEN Raise("HTTPError") ELSE Return(response)

\* session.get(...); response.raise_for_status(); response.json()
GetJson(net, body) ==
    IF ~ session_get(net, body).ok THEN session_get(net, body)
    ELSE IF ~ raise_for_status(session_get(net, body).value).ok
         THEN raise_for_status(session_get(net, body).value)
         ELSE Return(session_get(net, body).value.body)

Min(a, b) == IF a < b THEN a ELSE b

\* The id of the item at position pos of project pid.
TodoId(pid, pos) == pid * 100 + pos

\* The detail locator of the item at position pos of project pid.
TodoUrl(pid, pos) == <<"/projects/", pid, "/todos/", pos>>

\* GET /projects/{id}/todos.json?page=N: the summaries of page N, a project's
\* items per_page at a time, and nothing past the last.
ListingPage(rem, pid, page) ==
    [n \in 1 .. (Min(page * rem.per_page[pid], Len(rem.items[pid]))
                   - Min((page - 1) * rem.per_page[pid], Len(rem.items[pid])))
       |-> [id |-> TodoId(pid, (page - 1) * rem.per_page[pid] + n),
            url |-> TodoUrl(pid, (page - 1) * rem.per_page[pid] + n)]]

\* GET <summary.url>: the detail record behind a locator.
DetailAt(rem, url) == rem.items[url[2]][url[4]]

\* get_projects, lines 35-38.
get_projects(net, rem) == GetJson(net, rem.projects)

----------------------------------------------------------------------------
(* _feed_new_documents, lines 96-99, and the task queue behind             *)
(* add_task_to_queue (BaseDataSource).                                     *)

\* A task as add_task_to_queue records it: _feed_project_issues(project=project),
\* not yet started.  The other fields are the locals of the call once it runs.
NewTask(project) ==
    [project |-> project, pc |-> "pending", page |-> 0, basic_todos |-> <<>>,
     i |-> 0, todos |-> <<>>, got |-> <<>>, k |-> 0, children |-> <<>>,
     err |-> "", log |-> <<>>]

\* add_task_to_queue: the task joins the queue; nothing of it runs yet.
add_task_to_queue(tasks, project) == Append(tasks, NewTask(project))

\* A worker may take any task that has not started, whatever the others do.
TaskRunnable(tasks, u) == tasks[u].pc = "pending"

\* An exception that leaves a task is logged by its worker: the task ends,
\* the other tasks and the run are left alone.
TaskRaised(task, err) == [task EXCEPT !.pc = "failed", !.err = err]

\* RunRaised with the exception swallowed: the run goes on as if over.
RunRaised_Swallow(r, err) == [r EXCEPT !.pc = "done", !.err = err]

\* Line 98: get_projects() raised, so the for loop never starts.
RunRaised(r, err) == [r EXCEPT !.pc = "failed", !.err = err]

\* Line 98, the call: one request for the project list.
FeedNewDocuments ==
    /\ run.pc = "start"
    /\ \E net \in NetOutcomes :
         LET res == get_projects(net, remote) IN
           run' = IF res.ok
                  THEN [run EXCEPT !.pc = IF Len(res.value) = 0 THEN "done" ELSE "scheduling",
                                   !.projects = res.value, !.next = 1, !.calls = @ + 1]
                  ELSE [RunRaised(run, res.err) EXCEPT !.calls = @ + 1]
    /\ UNCHANGED <<remote, units, queue, vcfg, vres, binput, boutput>>

\* AfterSchedule with the loop left after its first iteration.
AfterSchedule_Break(r) == [r EXCEPT !.next = @ + 1, !.pc = "done"]

\* AfterSchedule with every other project of the list passed over.
AfterSchedule_SkipNext(r) ==
    [r EXCEPT !.next = @ + 2,
              !.pc = IF r.next + 1 >= Len(r.projects) THEN "done" ELSE "scheduling"]

\* Line 98, the for loop: on to the next project, or out of the loop.
AfterSchedule(r) ==
    [r EXCEPT !.next = @ + 1,
              !.pc = IF r.next = Len(r.projects) THEN "done" ELSE "scheduling"]

\* Lines 98-99, one iteration: the next project's task is queued.
ScheduleProject ==
    /\ run.pc = "scheduling"
    /\ units' = add_task_to_queue(units, run.projects[run.next])
    /\ run' = AfterSchedule(run)
    /\ UNCHANGED <<remote, queue, vcfg, vres, binput, boutput>>

----------------------------------------------------------------------------
(* _feed_project_issues, lines 101-143, with get_todos, lines 40-62, as     *)
(* the steps of one task: every request and every put_single is a step.    *)

\* RequestRaised with the exception caught and the todos so far returned.
RequestRaised_Partial(todos, err) == Return(todos)

\* get_todos when a request raised: the exception leaves the call, and the
\* todos fetched so far go with its frame.
RequestRaised(todos, err) == Raise(err)

\* Line 62: return todos.
ReturnTodos(todos) == Return(todos)

\* AppendTodo with the todo put in front.
AppendTodo_Front(todos, todo) == <<todo>> \o todos

\* Line 55: todos.append(todo).
AppendTodo(todos, todo) == Append(todos, todo)

\* Line 60: page += 1.
NextPage(page) == page + 1

\* LastPage with a page of one summary taken for the last.
LastPage_Short(basic_todos) == Len(basic_todos) <= 1

\* Line 57: if not basic_todos: break.
LastPage(basic_todos) == Len(basic_todos) = 0

\* AfterGetTodos with a request that raised issued again.
AfterGetTodos_Retry(task, res) ==
    IF ~ res.ok THEN task
    ELSE [task EXCEPT !.got = res.value, !.todos = <<>>, !.basic_todos = <<>>,
                      !.k = 1, !.pc = IF Len(res.value) = 0 THEN "done" ELSE "build"]

\* The state of the task once get_todos has ended with outcome res: the for
\* loop of line 105 starts on the returned list, or the exception goes on.
AfterGetTodos(task, res) ==
    IF ~ res.ok THEN TaskRaised([task EXCEPT !.todos = <<>>, !.basic_todos = <<>>], res.err)
    ELSE [task EXCEPT !.got = res.value, !.todos = <<>>, !.basic_todos = <<>>,
                      !.k = 1, !.pc = IF Len(res.value) = 0 THEN "done" ELSE "build"]

\* Lines 57-60, after the for loop over the page's summaries: out of the
\* while loop and return, or on to the next page.
AfterPage(task, basic_todos) ==
    IF LastPage(basic_todos) THEN AfterGetTodos(task, ReturnTodos(task.todos))
    ELSE [task EXCEPT !.basic_todos = <<>>, !.i = 0, !.page = NextPage(@), !.pc = "list"]

\* Lines 101-44: a worker starts the task; get_todos sets todos = [], page = 1.
StartTask(u) ==
    /\ TaskRunnable(units, u)
    /\ units' = [units EXCEPT ![u] = [@ EXCEPT !.pc = "list", !.page = 1, !.todos = <<>>]]
    /\ UNCHANGED <<remote, run, queue, vcfg, vres, binput, boutput>>

\* Lines 47-49 and 57-60: the listing request of the current page, whatever
\* its number.
GetPage(u) ==
    /\ units[u].pc = "list"
    /\ \E net \in NetOutcomes :
         LET res == GetJson(net, ListingPage(remote, units[u].project.id, units[u].page))
             t == [units[u] EXCEPT
                     !.log = Append(@, [kind |-> "page", page |-> units[u].page,
                                        ok |-> res.ok])]
         IN units' = [units EXCEPT ![u] =
                IF ~ res.ok THEN AfterGetTodos(t, RequestRaised(t.todos, res.err))
                ELSE IF Len(res.value) > 0
                     THEN [t EXCEPT !.basic_todos = res.value, !.i = 1, !.pc = "detail"]
                     ELSE AfterPage(t, res.value)]
    /\ UNCHANGED <<remote, run, queue, vcfg, vres, binput, boutput>>

\* Lines 51-55: the detail request of the current summary, and todos.append.
GetDetail(u) ==
    /\ units[u].pc = "detail"
    /\ \E net \in NetOutcomes :
         LET res == GetJson(net, DetailAt(remote, units[u].basic_todos[units[u].i].url))
             t == [units[u] EXCEPT
                     !.log = Append(@, [kind |-> "detail",
                                        url |-> units[u].basic_todos[units[u].i].url,
                                        ok |-> res.ok])]
         IN units' = [units EXCEPT ![u] =
                IF ~ res.ok THEN AfterGetTodos(t, RequestRaised(t.todos, res.err))
                ELSE IF t.i < Len(t.basic_todos)
                     THEN [t EXCEPT !.todos = AppendTodo(@, res.value), !.i = @ + 1]
                     ELSE AfterPage([t EXCEPT !.todos = AppendTodo(@, res.value)],
                                    t.basic_todos)]
    /\ UNCHANGED <<remote, run, queue, vcfg, vres, binput, boutput>>

\* IndexQueue.put_single(doc=doc).
put_single(q, doc) == Append(q, doc)

\* PutDocument with the comments enqueued too, after their parent.
PutDocument_WithChildren(q, doc) == put_single(q, doc) \o doc.children

\* PutDocument with the document put at the head of the queue.
PutDocument_Front(q, doc) == <<doc>> \o q

\* Line 143: the parent document, and nothing else, goes to the index queue.
PutDocument(q, doc) == put_single(q, doc)

\* BuildRaised with the exception caught in the loop: on to the next todo.
BuildRaised_Skip(task, err) ==
    [task EXCEPT !.k = @ + 1,
                 !.pc = IF task.k = Len(task.got) THEN "done" ELSE "build"]

\* Lines 105-143 hold no try: an exception raised while the documents of a
\* todo are built leaves the loop and the task.
BuildRaised(task, err) == TaskRaised(task, err)

\* Lines 105-143, one iteration: the documents of the next todo are built
\* and the parent is put on the index queue; an exception ends the task.
FeedTodo(u) ==
    /\ units[u].pc = "build"
    /\ LET t == units[u]
           res == BuildDocument(t.got[t.k], t.project, t.children)
       IN IF res.ok
          THEN /\ queue' = PutDocument(queue, res.value)
               /\ units' = [units EXCEPT ![u] =
                     [t EXCEPT !.children = res.value.children, !.k = @ + 1,
                               !.pc = IF t.k = Len(t.got) THEN "done" ELSE "build"]]
          ELSE /\ queue' = queue
               /\ units' = [units EXCEPT ![u] = BuildRaised(t, res.err)]
    /\ UNCHANGED <<remote, run, vcfg, vres, binput, boutput>>

----------------------------------------------------------------------------
(* validate_config, lines 76-86.                                           *)

Urls == {"https://acme.example", "https://down.example", "https://typo.example"}
Usernames == {"bo", "al", "eve"}
Passwords == {"secret", "guess", "old"}

Configs == [url : Urls, username : Usernames, password : Passwords]

\* What the network can do to the probe of a config: the transport can always
\* fail and is all a host that is down shows; a host that is up may answer 500
\* or 503; the service answers 200 to its account and 401 to anyone else, and
\* another host answers 404.
ProbeOutcomes(config) ==
    {[conn |-> FALSE, status |-> 200]}
    \cup (IF config.url = "https://down.example" THEN {}
          ELSE {[conn |-> TRUE, status |-> 500], [conn |-> TRUE, status |-> 503]})
    \cup (IF config.url = "https://typo.example"
          THEN {[conn |-> TRUE, status |-> 404]} ELSE {})
    \cup (IF config.url = "https://acme.example"
          THEN (IF config.username = "bo" /\ config.password = "secret"
                THEN {[conn |-> TRUE, status |-> 200]}
                ELSE {[conn |-> TRUE, status |-> 401]})
          ELSE {})

\* Line 85: except requests.HTTPError.
Caught(err) == err = "HTTPError"

\* Lines 78-86: how the call ends, given how its probe ended.  The probe's
\* value is dropped; a caught error is raised anew, with the probe's as cause.
validate_config(probe) ==
    IF probe.ok THEN [ok |-> TRUE, err |-> "", cause |-> ""]
    ELSE IF Caught(probe.err)
         THEN [ok |-> FALSE, err |-> "InvalidDataSourceConfig", cause |-> probe.err]
         ELSE [ok |-> FALSE, err |-> probe.err, cause |-> ""]

\* vres before any call.
NotValidated ==
    [called |-> FALSE, net |-> [conn |-> TRUE, status |-> 200],
     out |-> [ok |-> TRUE, err |-> "", cause |-> ""], log |-> <<>>]

\* Lines 79-84: the requests of one call of validate_config, given how its
\* probe ended: the one of client.get_projects(), outside any loop.
ProbeLog(probe) == <<[kind |-> "projects", ok |-> probe.ok]>>

\* One call of validate_config on the config at hand.
ValidateConfig ==
    /\ \E net \in ProbeOutcomes(vcfg) :
         vres' = [called |-> TRUE, net |-> net,
                  out |-> validate_config(get_projects(net, remote)),
                  log |-> ProbeLog(get_projects(net, remote))]
    /\ UNCHANGED <<remote, run, units, queue, vcfg, binput, boutput>>

----------------------------------------------------------------------------
(* Raw records of the remote service.                                      *)

Creator(name) == [name |-> name, avatar_url |-> <<"https://img/", name>>]

GoodStamp == Str(<<"2023-01-02", "T", "03:04:05", ".", "000000", "+00:00">>)
ZuluStamp == Str(<<"2023-01-02", "T", "03:05:00", ".", "000000", "Z">>)
\* No fraction of a second: not of the pattern.
BadStamp == Str(<<"2023-01-02", "T", "03:04:05", "Z">>)

HtmlHi == Str(<<"<p>", "Hi", "</p>">>)
HtmlOk == Str(<<"<b>", "ok", "</b>">>)
HtmlBreak == Str(<<"<br>">>)
EmptyStr == Str(<<>>)

SeqsUpTo(S, n) == UNION {[1 .. m -> S] : m \in 0 .. n}

Comment(content, stamp) ==
    [id |-> 0, creator |-> Creator("Al"), content |-> content, updated_at |-> stamp]

\* The j-th comment of todo id gets its own id.
CommentId(id, j) == id * 10 + j

NumberComments(id, comments) ==
    [j \in 1 .. Len(comments) |-> [comments[j] EXCEPT !.id = CommentId(id, j)]]

AppUrl(id) == <<"https://x/", id>>

\* The detail record of kind `kind` with id `id`.
Todo(kind, id) ==
    LET base == [id |-> id, creator |-> Creator("Bo"), content |-> HtmlHi,
                 app_url |-> AppUrl(id), updated_at |-> GoodStamp, comments |-> <<>>]
    IN CASE kind = "plain" -> base
         [] kind = "commented" ->
              [base EXCEPT !.comments = NumberComments(id,
                  <<Comment(None, GoodStamp), Comment(HtmlOk, ZuluStamp)>>)]
         [] kind = "badstamp" ->
              [base EXCEPT !.updated_at = BadStamp,
                           !.comments = NumberComments(id, <<Comment(HtmlOk, GoodStamp)>>)]
         [] kind = "badcomment" ->
              [base EXCEPT !.comments = NumberComments(id,
                  <<Comment(EmptyStr, GoodStamp), Comment(HtmlOk, BadStamp)>>)]
         [] kind = "malformed" ->
              [id |-> id, content |-> HtmlHi, app_url |-> AppUrl(id),
               updated_at |-> GoodStamp, comments |-> <<>>]

Kinds == {"plain", "commented", "badstamp", "badcomment", "malformed"}

Project(id, name) == [id |-> id, name |-> name]

\* The items of project pid, of the given kinds in listing order.
Items(pid, kinds) == [pos \in 1 .. Len(kinds) |-> Todo(kinds[pos], TodoId(pid, pos))]

\* A remote service with one project, of any items, served at any page size.
UnitRemotes ==
    {[projects |-> <<Project(1, "Acme")>>,
      items |-> [pid \in {1} |-> Items(pid, kinds)],
      per_page |-> [pid \in {1} |-> pp]] :
        kinds \in SeqsUpTo(Kinds, MaxItems), pp \in 1 .. MaxPerPage}

\* The projects of the remote service of an ingestion run.
Fixture ==
    <<[name |-> "Acme", kinds |-> <<"commented", "plain", "plain">>, per_page |-> 2],
      [name |-> "Beta", kinds |-> <<"plain", "badstamp">>, per_page |-> 2],
      [name |-> "Gamma", kinds |-> <<"commented", "malformed">>, per_page |-> 1]>>

Injective(f) == \A a, b \in DOMAIN f : f[a] = f[b] => a = b

Range(f) == {f[x] : x \in DOMAIN f}

\* A remote service listing up to MaxProjects of them, in any order.
RunRemotes ==
    {[projects |-> [n \in DOMAIN ids |-> Project(ids[n], Fixture[ids[n]].name)],
      items |-> [pid \in Range(ids) |-> Items(pid, Fixture[pid].kinds)],
      per_page |-> [pid \in Range(ids) |-> Fixture[pid].per_page]] :
        ids \in {f \in SeqsUpTo(DOMAIN Fixture, MaxProjects) : Injective(f)}}

----------------------------------------------------------------------------
(* The ingestion run.                                                      *)

NewRun == [pc |-> "start", projects |-> <<>>, next |-> 0, err |-> "", calls |-> 0]

IdleConfig ==
    [url |-> "https://acme.example", username |-> "bo", password |-> "secret"]

NoBuild == [todo |-> Todo("plain", 1), project |-> Project(1, "Acme"), prev |-> <<>>]

NotBuilt == [done |-> FALSE, res |-> Raise("")]

IngestInit(remotes) ==
    /\ remote \in remotes
    /\ run = NewRun
    /\ units = <<>>
    /\ queue = <<>>
    /\ vcfg = IdleConfig
    /\ vres = NotValidated
    /\ binput = NoBuild
    /\ boutput = NotBuilt

Init == IngestInit(RunRemotes)

UnitInit == IngestInit(UnitRemotes)

Next ==
    \/ FeedNewDocuments
    \/ ScheduleProject
    \/ \E u \in DOMAIN units : StartTask(u)
    \/ \E u \in DOMAIN units : GetPage(u)
    \/ \E u \in DOMAIN units : GetDetail(u)
    \/ \E u \in DOMAIN units : FeedTodo(u)

\* An ingestion run over several projects, their tasks running concurrently.
Spec == Init /\ [][Next]_vars

\* An ingestion run over one project of any content.
UnitSpec == UnitInit /\ [][Next]_vars

\* The steps that need nothing from the remote service: the scheduling of a
\* task, its start by a worker, the building and queueing of a document.
LocalStep ==
    \/ ScheduleProject
    \/ \E u \in DOMAIN units : StartTask(u)
    \/ \E u \in DOMAIN units : FeedTodo(u)

\* UnitSpec where a local step that can be taken is taken.  A request step
\* is taken when the response arrives or the transport gives up: session.get
\* (lines 36, 47, 52) is called without a timeout, so nothing in the code
\* makes that happen.
LoopSpec == UnitInit /\ [][Next]_vars /\ WF_vars(LocalStep)

\* The invocations of the connector side by side: an ingestion run over one
\* project, and calls of validate_config.
ConnectorNext == Next \/ ValidateConfig

ConnectorSpec == UnitInit /\ [][ConnectorNext]_vars

----------------------------------------------------------------------------
(* Config validation alone.                                                *)

ValidateInit ==
    /\ remote \in RunRemotes
    /\ run = NewRun
    /\ units = <<>>
    /\ queue = <<>>
    /\ vcfg \in Configs
    /\ vres = NotValidated
    /\ binput = NoBuild
    /\ boutput = NotBuilt

ValidateNext == ValidateConfig

ValidateSpec == ValidateInit /\ [][ValidateNext]_vars

----------------------------------------------------------------------------
(* Document building alone: lines 106-142 on one raw todo.                 *)

RawContents == {None, EmptyStr, HtmlOk, HtmlBreak}

\* Raw comments: every content with every stamp, and one with no content key.
RawComments ==
    {Comment(c, st) : c \in RawContents, st \in {GoodStamp, BadStamp}}
    \cup {[id |-> 0, creator |-> Creator("Al"), updated_at |-> GoodStamp]}

RawTodos ==
    {[id |-> 7, creator |-> Creator("Bo"), content |-> c, app_url |-> AppUrl(7),
      updated_at |-> st, comments |-> NumberComments(7, cs)] :
        c \in {HtmlHi, None}, st \in {ZuluStamp, BadStamp},
        cs \in SeqsUpTo(RawComments, MaxComments)}

\* What an earlier iteration may have left in the local variable children.
StaleChildren ==
    {<<>>, BuildChildren(Todo("commented", 5).comments, 1, Todo("commented", 5),
                         Project(1, "Acme"), <<>>).value}

BuildInit ==
    /\ remote \in {r \in RunRemotes : Len(r.projects) = 0}
    /\ run = NewRun
    /\ units = <<>>
    /\ queue = <<>>
    /\ vcfg = IdleConfig
    /\ vres = NotValidated
    /\ binput \in [todo : RawTodos, project : {Project(1, "Acme")}, prev : StaleChildren]
    /\ boutput = NotBuilt

\* One iteration of the loop of line 105 on the todo at hand.
BuildOne ==
    /\ ~ boutput.done
    /\ boutput' = [done |-> TRUE,
                   res |-> BuildDocument(binput.todo, binput.project, binput.prev)]
    /\ UNCHANGED <<remote, run, units, queue, vcfg, vres, binput>>

BuildNext == BuildOne

BuildSpec == BuildInit /\ [][BuildNext]_vars

----------------------------------------------------------------------------
(* What the claims speak of.                                               *)

Ids(docs) == [n \in 1 .. Len(docs) |-> docs[n].id]

\* The ids of the items of project pid, in pagination order.
ItemIds(pid) == [pos \in 1 .. Len(remote.items[pid]) |-> TodoId(pid, pos)]

\* The documents of the index queue that carry an item id of project pid.
DocsOf(pid) == SelectSeq(queue, LAMBDA d : d.id \in Range(ItemIds(pid)))

\* The exceptions a request raises.
RemoteErrors == {"HTTPError", "ConnectionError"}

TaskEnded(t) == t.pc \in {"done", "failed"}

\* get_todos has returned to the task (the task may have failed later).
Returned(t) ==
    \/ t.pc \in {"build", "done"}
    \/ t.pc = "failed" /\ t.err \notin RemoteErrors

\* get_todos has raised.
FetchFailed(t) == t.pc = "failed" /\ t.err \in RemoteErrors

\* Some step of task u can be taken.
CanStep(u) == ENABLED (StartTask(u) \/ GetPage(u) \/ GetDetail(u) \/ FeedTodo(u))

----------------------------------------------------------------------------
(* C1: once the project list has arrived, a task that fails stops nothing  *)
(* else: every project of the list gets its task, every task that has not *)
(* ended can take its next step whatever the others did, and a task that   *)
(* ends without failing has put every item of its project on the queue.    *)
C1_FailureIsolated ==
    run.pc \in {"scheduling", "done"} =>
      /\ run.pc = "scheduling" => ENABLED ScheduleProject
      /\ run.pc = "done" =>
           /\ Len(units) = Len(run.projects)
           /\ \A n \in DOMAIN units : units[n].project = run.projects[n]
      /\ \A u \in DOMAIN units :
           /\ ~ TaskEnded(units[u]) => CanStep(u)
           /\ units[u].pc = "done" =>
                Ids(DocsOf(units[u].project.id)) = ItemIds(units[u].project.id)

\* A run that is over, where one task failed and another enqueued its items.
C1_Witness ==
    /\ run.pc = "done"
    /\ \A u \in DOMAIN units : TaskEnded(units[u])
    /\ \E u, v \in DOMAIN units :
         /\ units[u].pc = "failed"
         /\ units[v].pc = "done"
         /\ Len(DocsOf(units[v].project.id)) >= 2

(* C2, as claimed: in a task whose get_todos returned and which has ended,  *)
(* every item whose documents can be built is on the queue, also when       *)
(* another item of the project could not be built.                          *)
C2_SiblingsEnqueued ==
    \A u \in DOMAIN units :
      (TaskEnded(units[u]) /\ Returned(units[u])) =>
        \A k \in DOMAIN units[u].got :
          BuildDocument(units[u].got[k], units[u].project, <<>>).ok =>
            units[u].got[k].id \in Range(Ids(queue))

\* The first empty listing page of project pid.
FirstEmptyPage(pid) ==
    CHOOSE p \in 1 .. (Len(remote.items[pid]) + 1) :
      /\ Len(ListingPage(remote, pid, p)) = 0
      /\ \A q \in 1 .. (p - 1) : Len(ListingPage(remote, pid, q)) > 0

\* The page numbers of the listing requests of a task, in request order.
PagesAsked(t) ==
    LET ps == SelectSeq(t.log, LAMBDA r : r.kind = "page")
    IN [n \in 1 .. Len(ps) |-> ps[n].page]

(* C3: the listing requests of a task are for pages 1, 2, 3, ... in that   *)
(* order, each once, never past the first empty page N+1; and when         *)
(* get_todos has returned they are exactly the pages 1 .. N+1.             *)
C3_Pagination ==
    \A u \in DOMAIN units :
      LET asked == PagesAsked(units[u])
          last == FirstEmptyPage(units[u].project.id)
      IN /\ asked = [n \in 1 .. Len(asked) |-> n]
         /\ Len(asked) <= last
         /\ Returned(units[u]) => Len(asked) = last

\* get_todos returned after two non-empty pages and the empty third.
C3_Witness ==
    \E u \in DOMAIN units :
      /\ Returned(units[u])
      /\ FirstEmptyPage(units[u].project.id) = 3
      /\ PagesAsked(units[u]) = <<1, 2, 3>>

(* C4: when a listing or detail request of a task has failed, get_todos    *)
(* has raised the request's error, the task has seen no detail record, and *)
(* no document of the project is on the queue.                             *)
C4_NoPartialResult ==
    \A u \in DOMAIN units :
      (\E n \in DOMAIN units[u].log : ~ units[u].log[n].ok) =>
        /\ FetchFailed(units[u])
        /\ units[u].got = <<>>
        /\ units[u].todos = <<>>
        /\ DocsOf(units[u].project.id) = <<>>

\* A detail request failed after another detail had been fetched.
C4_Witness ==
    \E u \in DOMAIN units :
      LET log == units[u].log IN
        /\ Len(log) >= 3
        /\ log[Len(log)].kind = "detail" /\ ~ log[Len(log)].ok
        /\ log[Len(log) - 1].kind = "detail" /\ log[Len(log) - 1].ok
        /\ FetchFailed(units[u])

(* C5: when get_projects has raised, the run has failed, nothing more      *)
(* happens in it, no task was scheduled, no document was enqueued and no   *)
(* project was taken from the list.                                        *)
C5_EnumerationFailure ==
    run.err # "" =>
      /\ run.pc = "failed"
      /\ run.err \in RemoteErrors
      /\ run.projects = <<>>
      /\ units = <<>>
      /\ queue = <<>>
      /\ ~ ENABLED Next

\* The project list request got a 4xx or 5xx answer from a remote with projects.
C5_Witness ==
    /\ run.pc = "failed"
    /\ run.err = "HTTPError"
    /\ run.calls = 1
    /\ Len(remote.projects) = MaxProjects

\* The probe of validate_config failed: no response, or a 4xx or 5xx one.
ProbeFailed(net) == ~ net.conn \/ net.status >= 400

(* C6, as claimed: a call of validate_config whose probe failed, by its     *)
(* status or by the transport, ends in InvalidDataSourceConfig, and a call  *)
(* whose probe succeeded returns.                                           *)
C6_ProbeFailureIsInvalidConfig ==
    vres.called =>
      /\ ProbeFailed(vres.net) => vres.out.err = "InvalidDataSourceConfig"
      /\ ~ ProbeFailed(vres.net) => vres.out.ok

(* C7: the queue holds task item documents only, never a comment; a task   *)
(* whose get_todos returned has put one document per item it has got past, *)
(* in pagination order, and a task that is done one per item of its        *)
(* project, no more and no fewer.                                          *)
C7_OneEnqueuePerItem ==
    /\ \A n \in DOMAIN queue : queue[n].type = "DOCUMENT"
    /\ \A u \in DOMAIN units :
         LET pid == units[u].project.id IN
           /\ Returned(units[u]) =>
                Ids(queue) = SubSeq(ItemIds(pid), 1, units[u].k - 1)
           /\ units[u].pc = "done" =>
                /\ Len(queue) = Len(remote.items[pid])
                /\ Ids(queue) = ItemIds(pid)

\* A task is done with three items over two pages, one of them with comments.
C7_Witness ==
    \E u \in DOMAIN units :
      /\ units[u].pc = "done"
      /\ Len(queue) = 3
      /\ remote.per_page[units[u].project.id] = 2
      /\ \E n \in DOMAIN queue : Len(queue[n].children) > 0

\* The raw todo a queued document was built from.
SourceOf(doc) == remote.items[doc.id \div 100][doc.id % 100]

(* C8: every queued document is a DOCUMENT whose children are the comments *)
(* of its own task item, one COMMENT child per comment in source order,    *)
(* each without children; no comments, no children.                        *)
C8_ChildrenAreOwnComments ==
    \A n \in DOMAIN queue :
      LET doc == queue[n]
          comments == SourceOf(doc).comments
      IN /\ doc.type = "DOCUMENT"
         /\ SourceOf(doc).id = doc.id
         /\ Len(doc.children) = Len(comments)
         /\ \A j \in DOMAIN doc.children :
              /\ doc.children[j].id = comments[j].id
              /\ doc.children[j].type = "COMMENT"
              /\ doc.children[j].children = <<>>

\* A document with two children is followed by one without children.
C8_Witness ==
    \E n \in DOMAIN queue :
      /\ n + 1 \in DOMAIN queue
      /\ Len(queue[n].children) = 2
      /\ Len(SourceOf(queue[n + 1]).comments) = 0

\* The requests get_todos makes from page p on when none fails: the listing
\* of the page, the detail of each of its summaries, then the next page.
RECURSIVE ExpectedRequests(_, _)
ExpectedRequests(pid, p) ==
    LET listing == ListingPage(remote, pid, p) IN
      <<[kind |-> "page", page |-> p]>>
      \o [n \in 1 .. Len(listing) |-> [kind |-> "detail", url |-> listing[n].url]]
      \o (IF Len(listing) = 0 THEN <<>> ELSE ExpectedRequests(pid, p + 1))

\* The requests of a log, without their outcomes.
Requests(log) ==
    [n \in 1 .. Len(log) |->
       IF log[n].kind = "page" THEN [kind |-> "page", page |-> log[n].page]
       ELSE [kind |-> "detail", url |-> log[n].url]]

NumDetails(log) == Len(SelectSeq(log, LAMBDA r : r.kind = "detail" /\ r.ok))

(* C9: the requests of a task are, in order, page 1, one detail request    *)
(* per summary of page 1 in listing order, page 2, its details, and so on; *)
(* the todos collected are the details fetched so far in that order, and   *)
(* the list returned holds one detail per summary, in that order.          *)
C9_DetailsBeforeNextPage ==
    \A u \in DOMAIN units :
      LET t == units[u]
          pid == t.project.id
          expected == ExpectedRequests(pid, 1)
      IN /\ Len(t.log) <= Len(expected)
         /\ Requests(t.log) = SubSeq(expected, 1, Len(t.log))
         /\ t.pc \in {"list", "detail"} =>
              t.todos = SubSeq(remote.items[pid], 1, NumDetails(t.log))
         /\ Returned(t) =>
              /\ Requests(t.log) = expected
              /\ t.got = remote.items[pid]

\* get_todos returned three details fetched over two pages.
C9_Witness ==
    \E u \in DOMAIN units :
      /\ Returned(units[u])
      /\ Len(units[u].got) = 3
      /\ remote.per_page[units[u].project.id] = 2
      /\ Len(units[u].log) = 6

\* The raw comment has no content, or an empty one: the key is missing, or
\* its value is None or the empty string.
EmptyContent(comment) == "content" \notin DOMAIN comment \/ ~ Truthy(comment.content)

\* Something other than a comment content stops the build of the todo.
OtherDefect(todo) ==
    \/ todo.content.t # "str"
    \/ ~ strptime(todo.updated_at).ok
    \/ \E j \in DOMAIN todo.comments : ~ strptime(todo.comments[j].updated_at).ok

(* C10, as claimed: a comment whose raw content is empty or absent (the    *)
(* key missing, None, or the empty string) does not make the build fail,   *)
(* and its COMMENT document has content None, not an empty string; a       *)
(* comment with non-empty content gets the plain text of that content.     *)
C10_EmptyOrAbsentContent ==
    boutput.done =>
      LET comments == binput.todo.comments IN
        /\ ~ boutput.res.ok => OtherDefect(binput.todo)
        /\ boutput.res.ok =>
             /\ Len(boutput.res.value.children) = Len(comments)
             /\ \A j \in DOMAIN comments :
                  LET child == boutput.res.value.children[j] IN
                    /\ EmptyContent(comments[j]) => child.content = None
                    /\ ~ EmptyContent(comments[j]) =>
                         child.content = Str(StripTags(comments[j].content.v))

\* The documents a task enqueues when it runs alone on the todos from the
\* k-th on: one per todo, up to the first whose documents cannot be built.
RECURSIVE AloneFrom(_, _, _, _)
AloneFrom(todos, k, project, prev) ==
    IF k > Len(todos) THEN <<>>
    ELSE LET res == BuildDocument(todos[k], project, prev) IN
           IF ~ res.ok THEN <<>>
           ELSE <<res.value>> \o AloneFrom(todos, k + 1, project, res.value.children)

\* What the task enqueues running alone, given how its get_todos ended.
Alone(t) ==
    IF Returned(t) THEN AloneFrom(remote.items[t.project.id], 1, t.project, <<>>)
    ELSE <<>>

RECURSIVE SumLen(_, _)
SumLen(tasks, n) ==
    IF n = 0 THEN 0 ELSE Len(DocsOf(tasks[n].project.id)) + SumLen(tasks, n - 1)

(* C11: whatever the interleaving of the tasks, the queue holds, for every  *)
(* task, the documents the task enqueues when it runs alone, in the         *)
(* project's pagination order, as far as the task has got, and all of them *)
(* once it has ended; and it holds nothing else.                            *)
C11_UnitsIndependent ==
    /\ Len(queue) = SumLen(units, Len(units))
    /\ \A u \in DOMAIN units :
         LET t == units[u]
             mine == DocsOf(t.project.id)
         IN /\ Len(mine) <= Len(Alone(t))
            /\ mine = SubSeq(Alone(t), 1, Len(mine))
            /\ Returned(t) => Len(mine) = t.k - 1
            /\ TaskEnded(t) => mine = Alone(t)

\* Two tasks have ended and their documents alternate in the queue.
C11_Witness ==
    /\ \A u \in DOMAIN units : TaskEnded(units[u])
    /\ \E a, b, c \in DOMAIN queue :
         /\ a < b /\ b < c
         /\ queue[a].location = queue[c].location
         /\ queue[a].location # queue[b].location

(* C12: no request is made twice: the project list is asked for at most   *)
(* once in a run and never again once that request failed; in a task no    *)
(* page number and no detail locator is requested twice, and a request     *)
(* that failed is the last the task makes; a call of validate_config makes *)
(* one request, for the project list, and when that failed the call has    *)
(* ended with an error.                                                    *)
C12_NoRetry ==
    /\ run.calls <= 1
    /\ run.calls = 1 => ~ ENABLED FeedNewDocuments
    /\ \A u \in DOMAIN units :
         LET log == units[u].log IN
           /\ \A a, b \in DOMAIN log :
                Requests(log)[a] = Requests(log)[b] => a = b
           /\ \A n \in DOMAIN log :
                ~ log[n].ok => /\ n = Len(log)
                               /\ FetchFailed(units[u])
                               /\ ~ CanStep(u)
    /\ vres.called =>
         /\ Len(vres.log) = 1
         /\ vres.log[1].kind = "projects"
         /\ vres.log[1].ok = ~ ProbeFailed(vres.net)
         /\ \A n \in DOMAIN vres.log :
              ~ vres.log[n].ok => (n = Len(vres.log) /\ ~ vres.out.ok)

\* A detail request failed after a listing and a detail request succeeded,
\* and the probe of a call of validate_config failed.
C12_Witness ==
    /\ run.calls = 1
    /\ \E u \in DOMAIN units :
         LET log == units[u].log IN
           /\ Len(log) = 3
           /\ log[1].ok /\ log[2].ok /\ ~ log[3].ok
           /\ log[3].kind = "detail"
           /\ units[u].pc = "failed"
    /\ vres.called
    /\ ~ vres.log[1].ok
    /\ ~ vres.out.ok

\* The name the remote gives the project with id pid.
NameOf(pid) ==
    LET n == CHOOSE n \in DOMAIN remote.projects : remote.projects[n].id = pid
    IN remote.projects[n].name

(* C13: every queued document has the app_url of its task item as url and  *)
(* the name of the item's project as location; each child has that same    *)
(* location, and as url the parent's app_url followed by #comment_ and the *)
(* id of its own comment.                                                  *)
C13_UrlAndLocation ==
    \A n \in DOMAIN queue :
      LET doc == queue[n]
          src == SourceOf(doc)
      IN /\ doc.id = src.id
         /\ doc.url = src.app_url
         /\ doc.location = NameOf(doc.id \div 100)
         /\ \A j \in DOMAIN doc.children :
              /\ doc.children[j].location = NameOf(doc.id \div 100)
              /\ doc.children[j].url = src.app_url \o <<"#comment_", src.comments[j].id>>
              /\ doc.children[j].id = src.comments[j].id

\* Documents of two projects are queued, each with children.
C13_Witness ==
    \E a, b \in DOMAIN queue :
      /\ queue[a].location = "Acme" /\ queue[b].location = "Gamma"
      /\ Len(queue[a].children) = 2 /\ Len(queue[b].children) = 2

(* C14: when building an item of a task has failed, the task has stopped at *)
(* that item: the item is the first of the fetched ones that does not      *)
(* build, the queue holds exactly the documents of the items before it in  *)
(* pagination order, none of the items from it on, and the task takes no   *)
(* further step.                                                           *)
C14_UnitStopsAtFailingItem ==
    \A u \in DOMAIN units :
      LET t == units[u]
          pid == t.project.id
      IN /\ \A i, j \in DOMAIN t.got :
              (i < j /\ ~ BuildDocument(t.got[i], t.project, <<>>).ok) =>
                t.got[j].id \notin Range(Ids(queue))
         /\ (t.pc = "failed" /\ Returned(t)) =>
           /\ t.k \in DOMAIN t.got
           /\ ~ BuildDocument(t.got[t.k], t.project, <<>>).ok
           /\ \A j \in 1 .. (t.k - 1) : BuildDocument(t.got[j], t.project, <<>>).ok
           /\ Ids(queue) = SubSeq(ItemIds(pid), 1, t.k - 1)
           /\ \A j \in t.k .. Len(t.got) : t.got[j].id \notin Range(Ids(queue))
           /\ ~ CanStep(u)

\* The second of three items failed to build: one document stays queued and
\* the third item, which would build, is not.
C14_Witness ==
    \E u \in DOMAIN units :
      /\ units[u].pc = "failed" /\ Returned(units[u])
      /\ units[u].k = 2 /\ Len(units[u].got) = 3
      /\ Len(queue) = 1
      /\ BuildDocument(units[u].got[3], units[u].project, <<>>).ok

\* The string is of the pattern YYYY-MM-DDTHH:MM:SS.ffffff and a UTC offset.
OfPattern(s) ==
    /\ s.t = "str"
    /\ Len(s.v) = 6
    /\ s.v[2] = "T" /\ s.v[4] = "."
    /\ s.v[1] \in Dates /\ s.v[3] \in Times /\ s.v[5] \in Fractions /\ s.v[6] \in Zones

\* The record has an updated_at of the pattern.
Stamped(rec) == "updated_at" \in DOMAIN rec /\ OfPattern(rec.updated_at)

(* C15: every queued document comes from a task item whose updated_at is   *)
(* of the pattern and carries that string's parse as timestamp; it has one *)
(* child per comment of the item, each from a comment whose updated_at is  *)
(* of the pattern and with that comment's own parse as timestamp; so no    *)
(* item with an unparseable updated_at, its own or of any of its comments, *)
(* is on the queue.                                                        *)
C15_TimestampsParsed ==
    /\ \A n \in DOMAIN queue :
         LET doc == queue[n]
             src == SourceOf(doc)
         IN /\ Stamped(src)
            /\ doc.timestamp = strptime(src.updated_at).value
            /\ doc.timestamp.date = src.updated_at.v[1]
            /\ doc.timestamp.time = src.updated_at.v[3]
            /\ Len(doc.children) = Len(src.comments)
            /\ \A j \in DOMAIN doc.children :
                 /\ Stamped(src.comments[j])
                 /\ doc.children[j].timestamp = strptime(src.comments[j].updated_at).value
                 /\ doc.children[j].timestamp.time = src.comments[j].updated_at.v[3]
    /\ \A pid \in DOMAIN remote.items : \A pos \in DOMAIN remote.items[pid] :
         LET src == remote.items[pid][pos] IN
           ("comments" \in DOMAIN src /\ \E j \in DOMAIN src.comments : ~ Stamped(src.comments[j]))
             => src.id \notin Range(Ids(queue))

\* A task failed on an unparseable comment timestamp after queueing a
\* document whose second child has a later timestamp than the document.
C15_Witness ==
    \E u \in DOMAIN units :
      /\ units[u].pc = "failed" /\ units[u].err = "ValueError"
      /\ Len(units[u].got[units[u].k].comments) = 2
      /\ Len(queue) = 1
      /\ Len(queue[1].children) = 2
      /\ queue[1].timestamp.time = "03:04:05"
      /\ queue[1].children[2].timestamp.time = "03:05:00"

\* The projects the tasks were scheduled for, in scheduling order.
Scheduled == [u \in DOMAIN units |-> units[u].project]

(* C16: a run asks for the project list once; the tasks scheduled so far   *)
(* are for the projects of the list taken so far, one each in list order,  *)
(* and for all of the list, and nothing else, when the loop is over; and a *)
(* step of the enumeration leaves the index queue and every scheduled task *)
(* as they were, adding at most one task, which has made no request.       *)
C16_OneUnitPerProject ==
    /\ [](/\ run.calls <= 1
          /\ run.pc # "start" => run.calls = 1
          /\ run.pc = "failed" => units = <<>>
          /\ run.pc \in {"scheduling", "done"} =>
               /\ run.projects = remote.projects
               /\ Len(Scheduled) = run.next - 1
               /\ Len(Scheduled) <= Len(run.projects)
               /\ \A u \in DOMAIN units : Scheduled[u] = run.projects[u]
               /\ Injective(Scheduled)
          /\ run.pc = "done" => Scheduled = remote.projects)
    /\ [][run' # run =>
            /\ queue' = queue
            /\ Len(units') \in {Len(units), Len(units) + 1}
            /\ \A u \in DOMAIN units : units'[u] = units[u]
            /\ \A u \in DOMAIN units' \ DOMAIN units :
                 /\ units'[u].pc = "pending"
                 /\ units'[u].log = <<>>]_vars

\* The loop is over for a list of two projects given with the larger id
\* first, and the first task has already put a document on the queue.
C16_Witness ==
    /\ run.pc = "done" /\ run.calls = 1
    /\ Len(units) = 2
    /\ Scheduled = remote.projects
    /\ units[1].project.id > units[2].project.id
    /\ units[2].pc = "pending"
    /\ Len(DocsOf(units[1].project.id)) >= 1

(* C17: a task has put no document on the queue while its get_todos is    *)
(* still running; once it has put one, all of its listing and detail      *)
(* requests have been made, all succeeded, and it makes no further one;    *)
(* and a task any of whose requests failed has put none, whatever details  *)
(* it had fetched before.                                                  *)
C17_FetchBeforeEnqueue ==
    /\ [](\A u \in DOMAIN units :
            LET t == units[u]
                mine == DocsOf(t.project.id)
            IN /\ t.pc \in {"pending", "list", "detail"} => mine = <<>>
               /\ (\E n \in DOMAIN t.log : ~ t.log[n].ok) => mine = <<>>
               /\ mine # <<>> =>
                    /\ Returned(t)
                    /\ \A n \in DOMAIN t.log : t.log[n].ok
                    /\ Requests(t.log) = ExpectedRequests(t.project.id, 1))
    /\ [][\A u \in DOMAIN units :
            DocsOf(units[u].project.id) # <<>> => units'[u].log = units[u].log]_vars

\* A task's fetch failed after two details had arrived and it has put
\* nothing on the queue, while another task has put its documents there.
C17_Witness ==
    \E u, v \in DOMAIN units :
      /\ FetchFailed(units[u])
      /\ NumDetails(units[u].log) >= 2
      /\ DocsOf(units[u].project.id) = <<>>
      /\ units[v].pc = "done"
      /\ Len(DocsOf(units[v].project.id)) >= 2

\* The last request of a task.
LastRequest(t) == t.log[Len(t.log)]

(* C18, as claimed: get_todos is left only by an empty listing page or by *)
(* a failed request: it has returned only when its last request was a      *)
(* listing that succeeded and was empty, the first empty one after the     *)
(* non-empty pages, it has raised only when its last request failed, and   *)
(* otherwise the next request, of whatever page number, can be made; and   *)
(* from a remote service whose listing has a last page it eventually       *)
(* returns or raises.                                                      *)
C18_GetTodosEnds ==
    /\ [](\A u \in DOMAIN units :
            LET t == units[u] IN
              /\ Returned(t) =>
                   /\ t.log # <<>>
                   /\ LastRequest(t).kind = "page" /\ LastRequest(t).ok
                   /\ Len(ListingPage(remote, t.project.id, LastRequest(t).page)) = 0
                   /\ \A p \in 1 .. (LastRequest(t).page - 1) :
                        Len(ListingPage(remote, t.project.id, p)) > 0
              /\ FetchFailed(t) => (t.log # <<>> /\ ~ LastRequest(t).ok)
              /\ t.pc \in {"list", "detail"} =>
                   /\ \A n \in DOMAIN t.log : t.log[n].ok
                   /\ \A p \in 1 .. (t.page - 1) :
                        Len(ListingPage(remote, t.project.id, p)) > 0
                   /\ ENABLED (GetPage(u) \/ GetDetail(u)))
    /\ (units # <<>>)
         ~> (\A u \in DOMAIN units : Returned(units[u]) \/ FetchFailed(units[u]))

====
